---- MODULE Spec2Model ----
(***************************************************************************)
(* A model of cancelgroup.Group (src/group.go).                            *)
(*                                                                         *)
(* A Group owns a sync.WaitGroup (the outstanding count), a sync.Once      *)
(* (errOnce) guarding the context.CancelCauseFunc of a context derived     *)
(* from a parent context, and a sync.OnceValue memoising wait(g).          *)
(*                                                                         *)
(* Each action is one linearisation point of the code: the sync.Once body, *)
(* the cancel of a context and the counter operations are all performed    *)
(* under a mutex or atomically, so each is a single step; the steps of     *)
(* wait(g), of its watcher goroutine and of a task goroutine that are      *)
(* separated by a scheduling point are separate actions.                   *)
(***************************************************************************)
EXTENDS Integers, FiniteSets, Sequences, TLC

\* ---------------------------------------------------------------- bounds
MaxTasks == 2
NumWaiters == 2

Tasks == 1..MaxTasks
Waiters == 1..NumWaiters

\* ------------------------------------------------------------ error values
Nil == "nil"
ErrorGroupCanceled == "Group canceled"
ErrorParentContextCanceled == "Group parent context was canceled"
\* context.Canceled: the cause of a parent canceled through a plain
\* context.CancelFunc, or through a CancelCauseFunc called with nil.
ContextCanceled == "context canceled"
\* a cause the owner of the parent passed to its context.CancelCauseFunc
ParentCustomCause == "parent cause"
ParentCauses == {ContextCanceled, ParentCustomCause}
\* the error value task t returns when it fails; distinct per task
TaskErr(t) == "task error " \o ToString(t)
TaskErrors == {TaskErr(t) : t \in Tasks}

VARIABLES
    ctxParent,    \* g.ctxParent: [cancelable, done, cause]
    ctxDone,      \* g.ctx.Done() is closed
    ctxCause,     \* context.Cause(g.ctx)
    errOnce,      \* g.errOnce has run
    count,        \* the counter of g.wg
    tstate,       \* per task: "idle", "runningGo", "runningCo", "deferred", "done"
    onceState,    \* g.waitFunction (sync.OnceValue): "new", "running", "done"
    result,       \* the value memoised by g.waitFunction
    watcher,      \* the goroutine of wait: "none", "spawned", "parked", "sending", "exited"
    pc,           \* per caller of Wait: "idle", "select", "read", "blocked", "returned"
    ret,          \* per caller of Wait: the value Wait returned
    latched,      \* history: who set the cause of g.ctx first, and in what state
    callSnap,     \* history: per caller, the tasks scheduled when it called Wait
    raceBy,       \* history: the callers whose call ran wait(g)
    cached,       \* history: the callers whose call found the value memoised
    parentAtCall, \* history: the parent was done at the first call of Wait
    failed        \* history: a task function returned an error before
                  \* Wait resolved

ctx == <<ctxDone, ctxCause, latched>>
hist == <<callSnap, raceBy, cached, parentAtCall>>
vars == <<ctxParent, ctxDone, ctxCause, errOnce, count, tstate,
          onceState, result, watcher, pc, ret, latched, callSnap, raceBy, cached,
          parentAtCall, failed>>

NotLatched == [by |-> "none", cause |-> Nil, outstanding |-> 0, resolved |-> FALSE]

\* A task function is running: in the goroutine of Go, or in that of Co.
Running == {"runningGo", "runningCo"}

\* The tasks that were scheduled and have not yet decremented the counter.
Outstanding == {t \in Tasks : tstate[t] \in Running \cup {"deferred"}}

\* The tasks that Go or Co has been called with.
Scheduled == {t \in Tasks : tstate[t] # "idle"}

\* ------------------------------------------------------------ constructors
\* context.Background(): never canceled.
Background == [cancelable |-> FALSE, done |-> FALSE, cause |-> Nil]

\* NewWithContext(parent): the group's context is derived from parent with
\* context.WithCancelCause, which cancels the child at once, with the
\* parent's cause, when the parent is already done.
NewWithContext(parent) ==
    /\ ctxParent = parent
    /\ ctxDone = parent.done
    /\ ctxCause = parent.cause
    /\ latched = IF parent.done
                 THEN [by |-> "parent", cause |-> parent.cause,
                       outstanding |-> 0, resolved |-> FALSE]
                 ELSE NotLatched
    /\ errOnce = FALSE
    /\ count = 0
    /\ tstate = [t \in Tasks |-> "idle"]
    /\ onceState = "new"
    /\ result = Nil
    /\ watcher = "none"
    /\ pc = [w \in Waiters |-> "idle"]
    /\ ret = [w \in Waiters |-> Nil]
    /\ callSnap = [w \in Waiters |-> {}]
    /\ raceBy = {}
    /\ cached = {}
    /\ parentAtCall = FALSE
    /\ failed = FALSE

New == NewWithContext(Background)

\* The parent contexts a caller can pass: live, or already canceled.
ParentContexts ==
    {[cancelable |-> TRUE, done |-> FALSE, cause |-> Nil]}
    \cup {[cancelable |-> TRUE, done |-> TRUE, cause |-> c] : c \in ParentCauses}

Init == New \/ \E parent \in ParentContexts : NewWithContext(parent)

\* ------------------------------------------------- the context of the group
\* A cancel that closes Done and leaves the cause to be stored later.
CtxCancelNoCause(err, by) ==
    IF ctxDone
    THEN UNCHANGED ctx
    ELSE /\ ctxDone' = TRUE
         /\ ctxCause' = ctxCause
         /\ latched' = [by |-> by, cause |-> err, outstanding |-> count,
                        resolved |-> (onceState = "done")]

\* The cancel of g.ctx: the first cancel sets the cause and closes Done,
\* every later one is a no-op.
CtxCancel(err, by) ==
    IF ctxDone
    THEN UNCHANGED ctx
    ELSE /\ ctxDone' = TRUE
         /\ ctxCause' = err
         /\ latched' = [by |-> by, cause |-> err, outstanding |-> count,
                        resolved |-> (onceState = "done")]

\* An errored that stores every error it is given: no sync.Once, and a
\* cause that the last writer sets.
erroredLastWins(err, by) ==
    /\ errOnce' = TRUE
    /\ ctxDone' = TRUE
    /\ ctxCause' = err
    /\ latched' = IF ctxDone THEN latched
                  ELSE [by |-> by, cause |-> err, outstanding |-> count,
                        resolved |-> (onceState = "done")]

\* g.errored(err): g.errOnce.Do(func() { g.cancelCause(err) })
errored(err, by) ==
    IF errOnce
    THEN UNCHANGED <<errOnce, ctx>>
    ELSE /\ errOnce' = TRUE
         /\ CtxCancel(err, by)

\* A Cancel that cancels the parent context along with g.ctx.
CancelCancelsParent ==
    /\ errored(ErrorGroupCanceled, "cancel")
    /\ ctxParent' = [ctxParent EXCEPT !.done = TRUE,
                        !.cause = IF ctxParent.done THEN @ ELSE ContextCanceled]
    /\ UNCHANGED <<count, tstate, onceState, result, watcher, pc, ret, hist,
                   failed>>

\* A Cancel that also aborts the running tasks and clears the counter.
CancelAbortsTasks ==
    /\ errored(ErrorGroupCanceled, "cancel")
    /\ tstate' = [t \in Tasks |->
                    IF tstate[t] \in Running THEN "done" ELSE tstate[t]]
    /\ count' = Cardinality({t \in Tasks : tstate[t] = "deferred"})
    /\ UNCHANGED <<ctxParent, onceState, result, watcher, pc, ret, hist,
                   failed>>

\* g.Cancel()
Cancel ==
    /\ errored(ErrorGroupCanceled, "cancel")
    /\ UNCHANGED <<ctxParent, count, tstate, onceState, result,
                   watcher, pc, ret, hist, failed>>

\* The owner of the parent context cancels it with cause c.
ParentCancel(c) ==
    /\ ctxParent.cancelable
    /\ ~ctxParent.done
    /\ ctxParent' = [ctxParent EXCEPT !.done = TRUE, !.cause = c]
    /\ UNCHANGED <<ctxDone, ctxCause, errOnce, count, tstate,
                   onceState, result, watcher, pc, ret, latched, hist, failed>>

\* A propagation that is carried out only while tasks are outstanding.
PropagateWhenBusy ==
    /\ ctxParent.done
    /\ ~ctxDone
    /\ count > 0
    /\ CtxCancel(ctxParent.cause, "parent")
    /\ UNCHANGED <<ctxParent, errOnce, count, tstate, onceState,
                   result, watcher, pc, ret, hist, failed>>

\* The canceled parent cancels its child g.ctx with its own cause.
Propagate ==
    /\ ctxParent.done
    /\ ~ctxDone
    /\ CtxCancel(ctxParent.cause, "parent")
    /\ UNCHANGED <<ctxParent, errOnce, count, tstate, onceState,
                   result, watcher, pc, ret, hist, failed>>

\* -------------------------------------------------------------- the tasks
\* Tasks are numbered in the order in which they are scheduled.
NextTask(t) == tstate[t] = "idle" /\ \A u \in Tasks : u < t => tstate[u] # "idle"

\* A scheduling that re-arms the signal of the group for the new task.
ScheduleResets(t, kind) ==
    /\ NextTask(t)
    /\ count' = count + 1
    /\ tstate' = [tstate EXCEPT ![t] = kind]
    /\ ctxDone' = FALSE
    /\ ctxCause' = Nil
    /\ UNCHANGED <<ctxParent, latched, errOnce, onceState, result, watcher,
                   pc, ret, hist, failed>>

\* The part of Go and Co before the go statement: g.wg.Add(1).
Schedule(t, kind) ==
    /\ NextTask(t)
    /\ count' = count + 1
    /\ tstate' = [tstate EXCEPT ![t] = kind]
    /\ UNCHANGED <<ctxParent, ctx, errOnce, onceState, result, watcher, pc,
                   ret, hist, failed>>

\* g.Go(t)
Go(t) == Schedule(t, "runningGo")

\* g.Co(t)
Co(t) == Schedule(t, "runningCo")

\* A goroutine that runs g.done() before it offers the error: the counter
\* is decremented, the offer is still to come.
TaskReturnDoneBeforeErrored(t, err) ==
    /\ tstate[t] \in Running
    /\ tstate' = [tstate EXCEPT ![t] = "done"]
    /\ count' = count - 1
    /\ watcher' = IF count - 1 = 0 /\ watcher = "parked"
                  THEN "sending" ELSE watcher
    /\ failed' = (failed \/ (err # Nil /\ onceState # "done"))
    /\ UNCHANGED <<ctxParent, errOnce, ctx, onceState, result, pc, ret, hist>>

\* A goroutine whose g.done() is not deferred and is skipped on the error
\* path.
TaskReturnSkipsDoneOnError(t, err) ==
    /\ tstate[t] \in Running
    /\ tstate' = [tstate EXCEPT ![t] = IF err # Nil THEN "done" ELSE "deferred"]
    /\ IF err # Nil
       THEN errored(err, "task")
       ELSE UNCHANGED <<errOnce, ctx>>
    /\ failed' = (failed \/ (err # Nil /\ onceState # "done"))
    /\ UNCHANGED <<ctxParent, count, onceState, result, watcher, pc,
                   ret, hist>>

\* The body of the goroutine of Go and Co: the task function returns err,
\* and a non-nil err is passed to g.errored.  The deferred g.done() is still
\* to run.
TaskReturn(t, err) ==
    /\ tstate[t] \in Running
    /\ tstate' = [tstate EXCEPT ![t] = "deferred"]
    /\ IF err # Nil
       THEN errored(err, "task")
       ELSE UNCHANGED <<errOnce, ctx>>
    /\ failed' = (failed \/ (err # Nil /\ onceState # "done"))
    /\ UNCHANGED <<ctxParent, count, onceState, result, watcher, pc,
                   ret, hist>>

\* sync.WaitGroup: a goroutine parked in Wait is released by the Done that
\* brings the counter to zero.
WgRelease(n, wt) == IF n = 0 /\ wt = "parked" THEN "sending" ELSE wt

\* g.done(), deferred in the goroutine of Go and Co: g.wg.Done().
TaskDone(t) ==
    /\ tstate[t] = "deferred"
    /\ tstate' = [tstate EXCEPT ![t] = "done"]
    /\ count' = count - 1
    /\ watcher' = WgRelease(count - 1, watcher)
    /\ UNCHANGED <<ctxParent, ctx, errOnce, onceState, result, pc,
                   ret, hist, failed>>

\* ------------------------------------------------------------------- Wait
\* A WaitGroup.Wait that does not look at the counter.
WgWaitNoCheck(n) == "sending"

\* A WaitGroup.Wait that parks even when the counter is already zero.
WgWaitAlwaysParks(n) == "parked"

\* sync.WaitGroup.Wait returns at once when the counter is zero and parks
\* the goroutine otherwise.
WgWait(n) == IF n = 0 THEN "sending" ELSE "parked"

\* A memoisation that runs the function again once it has returned.
OnceValueCallRerun(state) ==
    CASE state = "new" -> "select"
      [] state = "running" -> "blocked"
      [] state = "done" -> "select"

\* What sync.OnceValue does with a call: the first call runs the function,
\* a call made while it runs blocks until it has returned, and a call made
\* after it has returned gets the memoised value.
OnceValueCall(state) ==
    CASE state = "new" -> "select"
      [] state = "running" -> "blocked"
      [] state = "done" -> "returned"

\* Callers are numbered in the order in which they call Wait.
NextCaller(w) == pc[w] = "idle" /\ \A v \in Waiters : v < w => pc[v] # "idle"

\* g.Wait() is called by w.  The first call enters wait(g), makes the
\* channel and starts the watcher goroutine.
WaitCall(w) ==
    /\ NextCaller(w)
    /\ pc' = [pc EXCEPT ![w] = OnceValueCall(onceState)]
    /\ callSnap' = [callSnap EXCEPT ![w] = Scheduled]
    /\ parentAtCall' = IF onceState = "new" THEN ctxParent.done
                       ELSE parentAtCall
    /\ IF OnceValueCall(onceState) = "select"
       THEN /\ onceState' = "running"
            /\ watcher' = "spawned"
            /\ raceBy' = raceBy \cup {w}
            /\ UNCHANGED <<ret, cached>>
       ELSE /\ ret' = [ret EXCEPT ![w] =
                        IF OnceValueCall(onceState) = "returned"
                        THEN result ELSE @]
            /\ cached' = IF OnceValueCall(onceState) = "returned"
                         THEN cached \cup {w} ELSE cached
            /\ UNCHANGED <<onceState, watcher, raceBy>>
    /\ UNCHANGED <<ctxParent, ctx, errOnce, count, tstate, result, failed>>

\* The watcher goroutine of wait(g) reaches g.wg.Wait().
WatcherWait ==
    /\ watcher = "spawned"
    /\ watcher' = WgWait(count)
    /\ UNCHANGED <<ctxParent, ctx, errOnce, count, tstate, onceState,
                   result, pc, ret, hist, failed>>

\* A wait that, like errgroup's, lets the canceled case fire only once the
\* counter has drained.
WaitSelectCtxDoneDrained(w) ==
    /\ pc[w] = "select"
    /\ ctxDone
    /\ count = 0
    /\ errored(ErrorParentContextCanceled, "wait")
    /\ pc' = [pc EXCEPT ![w] = "read"]
    /\ UNCHANGED <<ctxParent, count, tstate, onceState, result,
                   watcher, ret, hist, failed>>

\* select, case <-g.ctx.Done(): g.errored(ErrorParentContextCanceled)
WaitSelectCtxDone(w) ==
    /\ pc[w] = "select"
    /\ ctxDone
    /\ errored(ErrorParentContextCanceled, "wait")
    /\ pc' = [pc EXCEPT ![w] = "read"]
    /\ UNCHANGED <<ctxParent, count, tstate, onceState, result,
                   watcher, ret, hist, failed>>

\* select, case <-ch: the watcher's send on the unbuffered channel meets
\* the receive, and the watcher goroutine ends.
WaitSelectAllDone(w) ==
    /\ pc[w] = "select"
    /\ watcher = "sending"
    /\ watcher' = "exited"
    /\ pc' = [pc EXCEPT ![w] = "read"]
    /\ UNCHANGED <<ctxParent, ctx, errOnce, count, tstate, onceState,
                   result, ret, hist, failed>>

\* A wait that returns nil on the all-done case without reading the cause.
WaitReturnNilOnAllDone(w) ==
    /\ pc[w] = "read"
    /\ result' = IF watcher = "exited" THEN Nil ELSE ctxCause
    /\ onceState' = "done"
    /\ ret' = [ret EXCEPT ![w] = IF watcher = "exited" THEN Nil ELSE ctxCause]
    /\ pc' = [pc EXCEPT ![w] = "returned"]
    /\ UNCHANGED <<ctxParent, ctx, errOnce, count, tstate, watcher,
                   hist, failed>>

\* return context.Cause(g.ctx); sync.OnceValue stores the value.
WaitReturn(w) ==
    /\ pc[w] = "read"
    /\ result' = ctxCause
    /\ onceState' = "done"
    /\ ret' = [ret EXCEPT ![w] = ctxCause]
    /\ pc' = [pc EXCEPT ![w] = "returned"]
    /\ UNCHANGED <<ctxParent, ctx, errOnce, count, tstate, watcher,
                   hist, failed>>

\* A call that blocked in sync.OnceValue returns the memoised value.
WaitUnblock(w) ==
    /\ pc[w] = "blocked"
    /\ onceState = "done"
    /\ ret' = [ret EXCEPT ![w] = result]
    /\ pc' = [pc EXCEPT ![w] = "returned"]
    /\ UNCHANGED <<ctxParent, ctx, errOnce, count, tstate, onceState,
                   result, watcher, hist, failed>>

\* The steps of a call of Wait after the call itself.
WaitStep(w) ==
    \/ WaitSelectCtxDone(w)
    \/ WaitSelectAllDone(w)
    \/ WaitReturn(w)
    \/ WaitUnblock(w)

\* ---------------------------------------------------------- specifications
Next ==
    \/ \E t \in Tasks : Go(t)
    \/ \E t \in Tasks : Co(t)
    \/ \E t \in Tasks : TaskReturn(t, Nil)
    \/ \E t \in Tasks : TaskReturn(t, TaskErr(t))
    \/ \E t \in Tasks : TaskDone(t)
    \/ Cancel
    \/ \E c \in ParentCauses : ParentCancel(c)
    \/ Propagate
    \/ \E w \in Waiters : WaitCall(w)
    \/ WatcherWait
    \/ \E w \in Waiters : WaitSelectCtxDone(w)
    \/ \E w \in Waiters : WaitSelectAllDone(w)
    \/ \E w \in Waiters : WaitReturn(w)
    \/ \E w \in Waiters : WaitUnblock(w)

Spec == Init /\ [][Next]_vars

\* The runtime schedules every goroutine that can run: a call of Wait, the
\* watcher and the propagation of the parent's cancel all make progress.
\* Nothing is assumed about the tasks: a task may run forever.
WaitFairness ==
    /\ \A w \in Waiters : WF_vars(WaitStep(w))
    /\ WF_vars(WatcherWait)
    /\ WF_vars(Propagate)

SpecWait == Spec /\ WaitFairness

\* Every task that was scheduled returns, and its deferred g.done() runs.
TaskFairness ==
    \A t \in Tasks :
        /\ WF_vars(TaskReturn(t, Nil) \/ TaskReturn(t, TaskErr(t)))
        /\ WF_vars(TaskDone(t))

SpecTasks == Spec /\ WaitFairness /\ TaskFairness

\* A coordinated task handed the parent's context instead of g.ctx.
CoSignalParent == ctxParent.done

\* The Done of the context Co passes to the task: t(g.ctx).
CoSignal == ctxDone

\* A coordinated task that observes its signal fired returns, with or
\* without an error.
CoObserve(t) ==
    /\ tstate[t] = "runningCo"
    /\ CoSignal
    /\ (TaskReturn(t, Nil) \/ TaskReturn(t, TaskErr(t)))

\* Every coordinated task keeps its contract and returns once its signal has
\* fired, and the deferred g.done() of a task that returned runs.  Nothing
\* is assumed about when an uncoordinated task returns.
CoFairness ==
    \A t \in Tasks :
        /\ WF_vars(CoObserve(t))
        /\ WF_vars(TaskDone(t))

SpecCo == Spec /\ WaitFairness /\ CoFairness

TypeOK ==
    /\ ctxParent \in [cancelable : BOOLEAN, done : BOOLEAN,
                      cause : {Nil} \cup ParentCauses]
    /\ ctxDone \in BOOLEAN
    /\ errOnce \in BOOLEAN
    /\ count \in 0..MaxTasks
    /\ tstate \in [Tasks -> {"idle", "deferred", "done"} \cup Running]
    /\ onceState \in {"new", "running", "done"}
    /\ watcher \in {"none", "spawned", "parked", "sending", "exited"}
    /\ pc \in [Waiters -> {"idle", "select", "read", "blocked", "returned"}]
    /\ callSnap \in [Waiters -> SUBSET Tasks]
    /\ raceBy \in SUBSET Waiters
    /\ cached \in SUBSET Waiters
    /\ parentAtCall \in BOOLEAN
    /\ failed \in BOOLEAN

\* ------------------------------------------------------------- properties
\* C1: once the signal of the group has fired, every call of Wait that is
\* pending or is made later returns, whether or not any outstanding task
\* ever completes (SpecWait assumes nothing about the tasks).
C1_WaitReturnsOnceCanceled ==
    \A w \in Waiters : (ctxDone /\ pc[w] # "idle") ~> (pc[w] = "returned")

\* A call of Wait has returned a cause while the watcher is still parked on
\* a counter above zero.
C1_Witness ==
    \E w \in Waiters :
        /\ pc[w] = "returned"
        /\ ctxDone
        /\ count > 0
        /\ watcher = "parked"

\* C2: all calls of Wait on the group return the same value, the one the
\* first resolution memoised, whatever happens after the resolution.
C2_SameValue ==
    \A v, w \in Waiters :
        pc[v] = "returned" /\ pc[w] = "returned"
            => ret[v] = ret[w] /\ ret[w] = result

\* Two calls have returned success although the signal has fired since the
\* resolution, the second of them after the value was memoised.
C2_Witness ==
    \E v \in raceBy, w \in cached :
        /\ pc[v] = "returned"
        /\ pc[w] = "returned"
        /\ ret[v] = Nil
        /\ ctxCause # Nil

\* A call of Wait that returned success finds every task scheduled before
\* the call done, and the watcher has seen the counter at zero and handed
\* over the all-done event.
ReturnedAfterDrain(w) ==
    pc[w] = "returned" /\ ret[w] = Nil
        => watcher = "exited" /\ \A t \in callSnap[w] : tstate[t] = "done"

\* C3, as stated: every call of Wait that returns success (nil) returns
\* only after every task scheduled before that call has completed and
\* decremented the counter.
C3_EveryWaitAfterDrain == \A w \in Waiters : ReturnedAfterDrain(w)

\* C3, amended: the call of Wait that runs the race returns success only
\* after the watcher saw the counter at zero and every task scheduled before
\* the call has completed and decremented the counter.
C3_RacingWaitAfterDrain == \A w \in raceBy : ReturnedAfterDrain(w)

\* The racing call returned success, and tasks were scheduled before it.
C3_Witness ==
    \E w \in raceBy :
        /\ pc[w] = "returned"
        /\ ret[w] = Nil
        /\ callSnap[w] # {}

\* C4: if the parent is canceled while the group has tasks outstanding and
\* no other cause was latched, Wait returns ErrorParentContextCanceled.
C4_ParentSentinel ==
    \A w \in Waiters :
        /\ pc[w] = "returned"
        /\ latched.by = "parent"
        /\ latched.outstanding > 0
        /\ ~latched.resolved
        => ret[w] = ErrorParentContextCanceled

\* C5: if Cancel is the first to latch a cause, with a task outstanding and
\* Wait not yet resolved, Wait returns exactly ErrorGroupCanceled, whatever
\* the tasks do afterwards.
C5_CancelSentinel ==
    \A w \in Waiters :
        /\ pc[w] = "returned"
        /\ latched.by = "cancel"
        /\ latched.outstanding > 0
        /\ ~latched.resolved
        => ret[w] = ErrorGroupCanceled

\* Wait returned ErrorGroupCanceled for a Cancel made with a task
\* outstanding, and every task has finished since.
C5_Witness ==
    \E w \in Waiters :
        /\ pc[w] = "returned"
        /\ ret[w] = ErrorGroupCanceled
        /\ latched.by = "cancel"
        /\ latched.outstanding > 0
        /\ ~latched.resolved
        /\ count = 0

\* C6: if the error of a task is the first cause offered, before Wait has
\* resolved, Wait returns exactly that error; the error of a task that
\* reports later never becomes the result.
C6_FirstTaskError ==
    \A w \in Waiters :
        /\ pc[w] = "returned"
        /\ latched.by = "task"
        /\ ~latched.resolved
        => ret[w] = latched.cause /\ ret[w] \in TaskErrors

\* Wait returned the error of the first task; both tasks have returned and
\* have run their deferred done.
C6_Witness ==
    \E w \in Waiters :
        /\ pc[w] = "returned"
        /\ latched.by = "task"
        /\ ret[w] = TaskErr(1)
        /\ \A t \in {1, 2} : tstate[t] = "done"

\* C7: the cause is write-once across Cancel, task errors and the parent:
\* once set it never changes, and the signal stays fired.
C7_WriteOnce ==
    [][ctxDone => ctxDone' /\ ctxCause' = ctxCause /\ latched' = latched]_vars

\* The parent latched its cause, and a later offer through errored was
\* dropped.
C7_Witness ==
    /\ latched.by = "parent"
    /\ ctxCause \in ParentCauses
    /\ errOnce
    /\ \E t \in Tasks : tstate[t] = "done"

\* C8: if no cancellation ever occurs and every scheduled task completes
\* without error (so the signal never fires), every call of Wait returns,
\* and returns success (nil); a group without tasks is included.
C8_WaitReturnsNil ==
    \A w \in Waiters :
        [](~ctxDone) => [](pc[w] # "idle" => <>(pc[w] = "returned" /\ ret[w] = Nil))

\* Wait returned success on a live group, all of whose tasks were scheduled
\* before the call and are done.
C8_Witness ==
    \E w \in raceBy :
        /\ pc[w] = "returned"
        /\ ret[w] = Nil
        /\ ~ctxDone
        /\ ~ctxParent.done
        /\ callSnap[w] = Tasks
        /\ count = 0

\* C9: once a call of Wait has returned, a further call returns in the very
\* step of the call: it never waits for a task or for the signal.
C9_LaterWaitDoesNotBlock ==
    [][\A w \in Waiters :
          /\ \E v \in Waiters : pc[v] = "returned"
          /\ pc[w] = "idle"
          /\ pc'[w] # "idle"
          => pc'[w] = "returned" /\ ret'[w] = result /\ watcher' = watcher]_vars

\* A call made after the resolution has returned while a task scheduled
\* before that call is still running and the signal has not fired.
C9_Witness ==
    \E w \in cached :
        /\ pc[w] = "returned"
        /\ ~ctxDone
        /\ \E t \in callSnap[w] : tstate[t] \in Running

C11_ParentDoneImpliesDone == ctxParent.done => ctxDone

\* C11, amended: a canceled parent always leads to the signal of the group
\* being done, with or without tasks and calls of Wait; a signal the parent
\* fired carries the parent's cause.
C11_ParentLeadsToDone ==
    /\ [](latched.by = "parent" => ctxParent.done /\ ctxCause = ctxParent.cause)
    /\ (ctxParent.done ~> ctxDone)

\* The parent, canceled after the group was made, fired the signal of the
\* group while a task was outstanding and Wait had not been called.
C11_Witness ==
    /\ ctxParent.done
    /\ ctxDone
    /\ latched.by = "parent"
    /\ latched.outstanding > 0
    /\ \A w \in Waiters : pc[w] = "idle"

\* C12: a step that fires the signal of the group (Cancel, a task error,
\* the parent) leaves the counter alone, and leaves every uncoordinated
\* task running, except the task whose own error fired the signal.
C12_FiringFrame ==
    [][~ctxDone /\ ctxDone' =>
          /\ count' = count
          /\ \A t \in Tasks :
                tstate[t] = "runningGo" /\ ctxCause' # TaskErr(t)
                    => tstate'[t] = "runningGo"]_vars

\* Wait resolved with ErrorGroupCanceled, and an uncoordinated task that was
\* outstanding at the Cancel is still running and still counted.
C12_Witness ==
    /\ onceState = "done"
    /\ result = ErrorGroupCanceled
    /\ latched.outstanding > 0
    /\ count > 0
    /\ \E t \in Tasks : tstate[t] = "runningGo"

\* C13: the error of a task is offered before the task decrements the
\* counter: when the counter is at zero the signal has fired for every
\* error returned before the resolution, and no call of Wait returns
\* success after such an error.
C13_ErrorBeforeDone ==
    /\ failed /\ count = 0 => ctxDone /\ errOnce
    /\ \A w \in Waiters : failed /\ pc[w] = "returned" => ret[w] # Nil

\* The all-done event won the race, and Wait still returned the error of a
\* task.
C13_Witness ==
    \E w \in raceBy :
        /\ failed
        /\ watcher = "exited"
        /\ pc[w] = "returned"
        /\ ret[w] \in TaskErrors
        /\ count = 0

\* C14: the race runs at most once per group: at most one call ever runs
\* wait(g), and a watcher is started only when none was started before.
C14_RaceOnce ==
    [][/\ Cardinality(raceBy') <= 1
       /\ (watcher' = "spawned" /\ watcher # "spawned" => watcher = "none")]_vars

\* Every caller has returned; one call ran the race and another found the
\* value memoised.
C14_Witness ==
    /\ \A w \in Waiters : pc[w] = "returned"
    /\ Cardinality(raceBy) = 1
    /\ cached # {}
    /\ watcher # "none"

\* C15: a fired signal always carries a cause, so a call of Wait that
\* resolved through the canceled case never returns success.
C15_FiredHasCause ==
    /\ ctxDone => ctxCause # Nil /\ latched.by # "none"
    /\ \A w \in raceBy :
          pc[w] = "returned" /\ watcher # "exited" => ret[w] # Nil

\* The racing call resolved through the canceled case, the watcher having
\* already seen the counter at zero.
C15_Witness ==
    \E w \in raceBy :
        /\ pc[w] = "returned"
        /\ watcher = "sending"
        /\ ret[w] # Nil

\* C16: the counter equals the number of tasks that were scheduled and have
\* not yet run their deferred done: it counts a task from the moment it is
\* scheduled, is never negative, and is decremented once per task, after a
\* success as after an error.
C16_CountIsOutstanding ==
    /\ count = Cardinality(Outstanding)
    /\ count >= 0

\* Every task was scheduled and is done, one of them with an error, and the
\* counter is back at zero.
C16_Witness ==
    /\ Scheduled = Tasks
    /\ \A t \in Tasks : tstate[t] = "done"
    /\ ctxCause \in TaskErrors
    /\ count = 0

\* C17: when every coordinated task returns once it observes its signal
\* fired, every coordinated task running when the signal of the group has
\* fired (by Cancel, a sibling's error or the parent) eventually completes.
C17_CoTasksComplete ==
    \A t \in Tasks : (ctxDone /\ tstate[t] = "runningCo") ~> (tstate[t] = "done")

\* The error of a sibling fired the signal while a coordinated task was
\* running.
C17_Witness ==
    \E t \in Tasks :
        /\ tstate[t] = "runningCo"
        /\ ctxDone
        /\ latched.by = "task"

\* C18: cancellation is permanent: a signal of the group, or of the parent,
\* that is done stays done through every operation.
C18_DoneIsPermanent ==
    [][/\ ctxDone => ctxDone'
       /\ ctxParent.done => ctxParent'.done]_vars

\* Both signals are done, and since the signal of the group fired every
\* task was scheduled and finished and Wait resolved.
C18_Witness ==
    /\ ctxDone
    /\ ctxParent.done
    /\ latched.outstanding = 0
    /\ ~latched.resolved
    /\ Scheduled = Tasks
    /\ count = 0
    /\ onceState = "done"

C20_ReturnsCauseAtResolution ==
    [][\A w \in Waiters :
          pc[w] = "read" /\ pc'[w] = "returned" =>
              /\ ret'[w] = ctxCause
              /\ result' = ctxCause
              /\ (ret'[w] = Nil <=> ~ctxDone)]_vars

\* The all-done case was taken on a group without tasks whose signal Cancel
\* had fired, and Wait returned the latched cause.
C20_Witness ==
    \E w \in raceBy :
        /\ pc[w] = "returned"
        /\ watcher = "exited"
        /\ latched.by = "cancel"
        /\ latched.outstanding = 0
        /\ ret[w] = ErrorGroupCanceled

\* C21: once Wait has returned and every scheduled task has completed, the
\* watcher goroutine has ended: it is not left blocked, also when the
\* canceled case won the race.  (A watcher that has not yet reached
\* g.wg.Wait() is not blocked and is left out.)
C21_WatcherEnds ==
    onceState = "done" /\ Outstanding = {} /\ watcher # "spawned"
        => watcher = "exited"

\* C22: a step that fires the signal of the group or resolves Wait (Cancel,
\* a task error, the return of wait) leaves the parent context as it was,
\* and the parent of a group made by New is never changed.
C22_ParentUntouched ==
    [][/\ (ctxDone' # ctxDone \/ errOnce' # errOnce \/ onceState' # onceState)
            => ctxParent' = ctxParent
       /\ ~ctxParent.cancelable => ctxParent' = ctxParent]_vars

\* Cancel fired the signal of a group derived from a live parent, Wait
\* resolved with ErrorGroupCanceled, and the parent is still live.
C22_Witness ==
    /\ ctxParent.cancelable
    /\ ~ctxParent.done
    /\ latched.by = "cancel"
    /\ onceState = "done"
    /\ result = ErrorGroupCanceled

====
